---- MODULE Spec2Model ----
(***************************************************************************)
(* The airdrop metadata synchronisation and eligibility pipeline           *)
(* (rotkehlchen.chain.ethereum.airdrops: fetch_airdrops_metadata,          *)
(* _parse_airdrops, check_airdrops) as exercised by                        *)
(* rotkehlchen/tests/unit/test_ethereum_airdrops.py, together with the     *)
(* remote repository the tests mock, the globaldb unique_cache, the local  *)
(* payload files, the asset catalog, the history events and the message    *)
(* aggregator; and PickleAccountant.event_settings                          *)
(* (rotkehlchen/chain/ethereum/modules/pickle_finance/accountant.py) with  *)
(* the lookups made in what it returns.                                    *)
(*                                                                         *)
(* Amounts are decimals scaled to small integers, timestamps are scaled to *)
(* small integers around the cutoff, and the two fixed-size test           *)
(* addresses are the strings "a1" and "a2" ("p1" owns the POAP, "a3" is an *)
(* account that occurs in no payload).                                     *)
(***************************************************************************)
EXTENDS Integers, Sequences, FiniteSets, TLC

None == "None"

(* ------------------------------ bounds --------------------------------- *)

\* number of index fetches (check_airdrops runs plus standalone metadata fetches)
MaxSyncs == 2
\* the clock runs over 1..MaxTime
MaxTime == 3
\* number of history events in the user database
MaxEvents == 1

(* ------------------------- test data (constants) ----------------------- *)

\* MOCK_AIRDROP_INDEX['airdrops']['shutter']['cutoff_time'], on the scaled clock
CutoffTime == 2
\* tolerance_for_amount_check of test_check_airdrops, in scaled amount units
Tolerance == 1

TokenNames == <<"uniswap", "shutter">>
PoapNames == <<"aave_v2_pioneers">>
AllNames == {"uniswap", "shutter", "aave_v2_pioneers"}
Hashes == {"hash", "updated_hash"}
Etags == {"etag", "updated_etag"}
Kinds == {"ok", "badrow", "notcsv"}

\* the static fields of MOCK_AIRDROP_INDEX, looked up by protocol name
AssetOf(name) == IF name = "uniswap" THEN "UNI" ELSE "SHU"
UrlOf(name) ==
    CASE name = "uniswap" -> "https://app.uniswap.org/"
      [] name = "shutter" -> "https://claim.shutter.network/"
      [] OTHER -> "https://poap.delivery/aave-v2-pioneers"
\* the set holding the cutoff_time of the entry: empty when the entry has none
CutoffOf(name) == IF name = "shutter" THEN {CutoffTime} ELSE {}
\* only shutter carries new_asset_data
HasNewAssetData(name) == name = "shutter"
\* the name and symbol of the new_asset_data descriptors of the test
EvmTokenData == [name |-> "Shutter", symbol |-> "SHU"]
NonEvmTokenData == [name |-> "Some Non EVM Token", symbol |-> "NONEVM"]
\* the descriptor the index carries for the entry
NewAssetData(name) == EvmTokenData

\* addresses= of a check_airdrops call: TEST_ADDR2, TEST_POAP1 and an account
\* of ethereum_accounts; TEST_ADDR1 is left to the payloads alone
Addresses == {"a2", "p1", "a3"}

(* --------------------------- payload contents -------------------------- *)

FileContent(has_header, rows) ==
    [present |-> TRUE, has_header |-> has_header, rows |-> rows]
NoFile == [present |-> FALSE, has_header |-> FALSE, rows |-> <<>>]
\* 'invalid,csv\n' written to shapeshift.csv before the first sync
StaleFile == FileContent(TRUE, <<>>)

\* the data rows of url_to_data_map (the header row is has_header)
CsvRows(name) ==
    IF name = "uniswap"
    THEN << <<"a1", 4, 0>>, <<"a2", 5, 1>> >>
    ELSE << <<"a2", 3>> >>

\* the text the mocked repository serves for a protocol's csv_path
CsvPayload(name, kind) ==
    CASE kind = "ok" -> FileContent(TRUE, CsvRows(name))
      [] kind = "badrow" -> FileContent(TRUE, CsvRows(name) \o << <<>> >>)
      [] OTHER -> FileContent(FALSE, <<>>)

\* poap_aave_v2_pioneers.json: {TEST_POAP1: [566]}
PoapPayload(name) == FileContent(TRUE, << <<"p1", 566>> >>)

(* --------------------------- json conversion --------------------------- *)

RECURSIVE Flatten(_)
Flatten(entries) ==
    IF entries = <<>> THEN <<>>
    ELSE <<Head(entries).name, Head(entries).hash>> \o Flatten(Tail(entries))

RECURSIVE Unflatten(_)
Unflatten(tokens) ==
    IF Len(tokens) < 2 THEN <<>>
    ELSE <<[name |-> tokens[1], hash |-> tokens[2]]>>
             \o Unflatten(SubSeq(tokens, 3, Len(tokens)))

\* json.dumps / rlk_jsondumps of an index document, as a token sequence
JsonDumps(doc) ==
    <<"airdrops">> \o Flatten(doc.airdrops)
        \o <<"poap_airdrops">> \o Flatten(doc.poap_airdrops)

PoapMark(blob) == {k \in 1..Len(blob) : blob[k] = "poap_airdrops"}

\* whether the blob parses to a document with the two namespaces
IsIndexJson(blob) ==
    /\ Len(blob) >= 2
    /\ blob[1] = "airdrops"
    /\ PoapMark(blob) # {}
    /\ \A k \in PoapMark(blob) : (k - 2) % 2 = 0 /\ (Len(blob) - k) % 2 = 0

\* the parse reads the 'airdrops' namespace alone
JsonLoadsNoPoap(blob) ==
    LET k == CHOOSE j \in PoapMark(blob) : \A i \in PoapMark(blob) : j <= i
    IN  [airdrops |-> Unflatten(SubSeq(blob, 2, k - 1)),
         poap_airdrops |-> <<>>]

\* json.loads of a blob for which IsIndexJson holds
JsonLoads(blob) ==
    LET k == CHOOSE j \in PoapMark(blob) : \A i \in PoapMark(blob) : j <= i
    IN  [airdrops |-> Unflatten(SubSeq(blob, 2, k - 1)),
         poap_airdrops |-> Unflatten(SubSeq(blob, k + 1, Len(blob)))]

\* '{"metadata": "invalid"}'
InvalidBlob == <<"metadata", "invalid">>

(* -------------------------------- state -------------------------------- *)

VARIABLES
    remote,    \* the mocked repository: index ETag, index hashes, payload kinds
    cache,     \* globaldb unique_cache: ETag, metadata blob, payload hashes
    files,     \* the local payload files, by protocol
    assets,    \* the asset catalog: the data of the identifiers that resolve
    events,    \* the history events of the user database
    now,       \* the (frozen) clock
    warnings,  \* messages_aggregator.warnings
    run,       \* the check_airdrops call in progress, or the last one
    meta,      \* a standalone fetch_airdrops_metadata call
    nsync,     \* index requests sent so far
    pickle     \* the accounting side: PickleAccountant's settings and their use

vars == <<remote, cache, files, assets, events, now, warnings, run, meta, nsync,
          pickle>>

Failures == {"UNREACHABLE", "BAD_STATUS"}
Resting == {"idle", "done", "raised"}

(* --------------------------- the remote (mocks) ------------------------ *)

\* mock_airdrop_index as served by the mocked requests.get
RemoteIndex ==
    [airdrops |->
        [i \in 1..Len(TokenNames) |->
            [name |-> TokenNames[i], hash |-> remote.hash[TokenNames[i]]]],
     poap_airdrops |->
        [i \in 1..Len(PoapNames) |->
            [name |-> PoapNames[i], hash |-> remote.hash[PoapNames[i]]]]]

\* the answers of the mocked index endpoint to a request carrying the ETag
\* if_none_match: _prepare_mock_response always answers with the document,
\* _mock_get answers NOT_MODIFIED exactly when the ETags agree
MockIndexResponses(if_none_match) ==
    {[status |-> "OK", etag |-> remote.etag, text |-> JsonDumps(RemoteIndex), id |-> 0]}
    \cup (IF if_none_match = remote.etag
          THEN {[status |-> "NOT_MODIFIED", etag |-> remote.etag, text |-> <<>>, id |-> 0]}
          ELSE {})

\* the endpoint is unreachable, or answers neither success nor 304
TransportFailures ==
    {[status |-> s, etag |-> None, text |-> <<>>, id |-> 0] : s \in Failures}

IndexResponses(if_none_match) ==
    MockIndexResponses(if_none_match) \cup TransportFailures

(* ------------------------ fetch_airdrops_metadata ---------------------- *)

\* the If-None-Match header: the cached ETag, None when there is none
IfNoneMatch(c) == c.etag

\* the ETag is written and the document is left for later
SetMetadataEtagOnly(c, r) == [c EXCEPT !.etag = r.etag, !.etag_fetch = r.id]

\* a document is stored only where none is cached yet
SetMetadataKeepBlob(c, r) ==
    [c EXCEPT !.etag = r.etag, !.blob = IF @ = <<>> THEN r.text ELSE @,
              !.etag_fetch = r.id, !.blob_fetch = IF c.blob = <<>> THEN r.id ELSE @]

\* persist the fetched document and its ETag, in one write context
SetMetadata(c, r) ==
    [c EXCEPT !.etag = r.etag, !.blob = r.text,
              !.etag_fetch = r.id, !.blob_fetch = r.id]

\* RemoteError: the request failed, or nothing usable is cached on a 304
MetadataFails(c, r) ==
    \/ r.status \in Failures
    \/ r.status = "NOT_MODIFIED" /\ ~IsIndexJson(c.blob)

\* a failed request drops the cached ETag
CacheAfterMetadataForget(c, r) ==
    IF r.status = "OK" THEN SetMetadata(c, r)
    ELSE IF r.status \in Failures THEN [c EXCEPT !.etag = None, !.etag_fetch = 0]
    ELSE c

\* the cache after the call: written on a fetched document only
CacheAfterMetadata(c, r) == IF r.status = "OK" THEN SetMetadata(c, r) ELSE c

\* the document is downloaded again, whatever the answer was
MetadataDocRefetched(c, r) == JsonLoads(JsonDumps(RemoteIndex))

\* a cached document that parses is preferred to the answer
MetadataDocCachedFirst(c, r) ==
    JsonLoads(IF r.status = "NOT_MODIFIED" \/ IsIndexJson(c.blob)
              THEN c.blob ELSE r.text)

\* the document the call goes on with: the cached one on a 304
MetadataDoc(c, r) ==
    JsonLoads(IF r.status = "NOT_MODIFIED" THEN c.blob ELSE r.text)

\* _parse_airdrops: the Airdrop records of the raw 'airdrops' mapping
_parse_airdrops(raw) ==
    [i \in 1..Len(raw) |->
        [name |-> raw[i].name,
         csv_hash |-> raw[i].hash,
         asset_identifier |-> AssetOf(raw[i].name),
         url |-> UrlOf(raw[i].name),
         cutoff_time |-> CutoffOf(raw[i].name)]]

\* the protocols of the raw mapping whose entry carries new_asset_data
WithNewAssetData(raw) ==
    {raw[i].name : i \in {j \in 1..Len(raw) : HasNewAssetData(raw[j].name)}}

\* the descriptor is written over whatever the catalog holds
RegisterAssetsOverwrite(catalog, raw) ==
    LET new == {AssetOf(n) : n \in WithNewAssetData(raw)}
    IN  [i \in DOMAIN catalog \cup new |->
            IF i \in new
            THEN NewAssetData(CHOOSE n \in WithNewAssetData(raw) : AssetOf(n) = i)
            ELSE catalog[i]]

\* the catalog after _parse_airdrops: new_asset_data of an unknown identifier
\* registers it, a known identifier is left alone
RegisterAssets(catalog, raw) ==
    LET new == {AssetOf(n) : n \in WithNewAssetData(raw)}
    IN  [i \in DOMAIN catalog \cup new |->
            IF i \in DOMAIN catalog
            THEN catalog[i]
            ELSE NewAssetData(CHOOSE n \in WithNewAssetData(raw) : AssetOf(n) = i)]

(* ------------------------------ check_airdrops ------------------------- *)

\* the payload is downloaded only while no hash is cached for it
NeedsFetchUncached(c, name, index_hash) == c.hash[name] = None

\* a local file is taken as it is when no hash is cached for it
NeedsFetchTrustsFile(c, name, index_hash) ==
    /\ c.hash[name] # index_hash
    /\ ~(c.hash[name] = None /\ files[name].present)

\* the payload is downloaded when the hash the index lists for it is not the
\* hash cached under its filename (no cached hash included)
NeedsFetch(c, name, index_hash) == c.hash[name] # index_hash

\* the positions of the rows that do not unpack to (address, amount, ...)
InvalidRows(rows) == {i \in 1..Len(rows) : Len(rows[i]) < 2}

\* a payload with an invalid row is not written to the local file
SaveFileIfValid(fs, name, content) ==
    IF InvalidRows(content.rows) = {} THEN [fs EXCEPT ![name] = content] ELSE fs

\* the file is written from the download of the run, made or not
SaveFileFromDownload(fs, name, content) == [fs EXCEPT ![name] = run.payload]

\* the payload is written to <name>.csv, or <name>.json for a POAP
SaveFile(fs, name, content) == [fs EXCEPT ![name] = content]

\* a hash is cached for a filename only while none is cached for it
SaveHashIfMissing(c, name, index_hash) ==
    [c EXCEPT !.hash[name] = IF @ = None THEN index_hash ELSE @]

\* the hash the index lists is cached under the payload's filename
SaveHash(c, name, index_hash) == [c EXCEPT !.hash[name] = index_hash]

\* a text with an invalid row is refused as the download is checked
IsCsvStrict(content) ==
    content.has_header /\ \A i \in 1..Len(content.rows) : Len(content.rows[i]) >= 2

\* the downloaded text is a CSV with a header row, of at least
\* SMALLEST_AIRDROP_SIZE bytes; '<>invalid CSV<>' is not
IsCsv(content) == content.has_header

\* the protocol is dropped from the cutoff second on
CutoffReached(current_time, cutoff_time) ==
    \E t \in cutoff_time : current_time >= t

\* the protocol is no longer claimable at current_time
CutoffPassed(current_time, cutoff_time) ==
    \E t \in cutoff_time : current_time > t

\* the tolerance is taken as a band around the amount
ClaimedAround(history, address, asset, amount, tolerance) ==
    \E e \in history :
        /\ e.location_label = address
        /\ e.asset = asset
        /\ amount - tolerance <= e.amount
        /\ e.amount <= amount + tolerance

\* a receive event of subtype airdrop of (address, asset) whose amount lies
\* in [amount, amount + tolerance]
Claimed(history, address, asset, amount, tolerance) ==
    \E e \in history :
        /\ e.location_label = address
        /\ e.asset = asset
        /\ amount <= e.amount
        /\ e.amount <= amount + tolerance

\* the entries of one token protocol: one per row of a caller address
RECURSIVE AirdropEntries(_, _, _, _)
AirdropEntries(a, rows, addresses, history) ==
    IF rows = <<>> THEN <<>>
    ELSE (IF Head(rows)[1] \in addresses
          THEN <<[addr |-> Head(rows)[1],
                  protocol |-> a.name,
                  event |-> "",
                  amount |-> Head(rows)[2],
                  asset |-> a.asset_identifier,
                  link |-> a.url,
                  claimed |-> Claimed(history, Head(rows)[1], a.asset_identifier,
                                      Head(rows)[2], Tolerance),
                  assets |-> <<>>]>>
          ELSE <<>>)
         \o AirdropEntries(a, Tail(rows), addresses, history)

\* the entries of one POAP protocol, under the key 'poap'
RECURSIVE PoapEntries(_, _, _)
PoapEntries(name, rows, addresses) ==
    IF rows = <<>> THEN <<>>
    ELSE (IF Head(rows)[1] \in addresses
          THEN <<[addr |-> Head(rows)[1],
                  protocol |-> "poap",
                  event |-> name,
                  amount |-> 0,
                  asset |-> "",
                  link |-> UrlOf(name),
                  claimed |-> FALSE,
                  assets |-> <<Head(rows)[2]>>]>>
          ELSE <<>>)
         \o PoapEntries(name, Tail(rows), addresses)

\* every address of the payload is reported, the caller's or not
ProtocolEntriesAnyAddress(a, local, addresses, history, current_time) ==
    IF \/ InvalidRows(local.rows) # {}
       \/ a.asset_identifier \notin DOMAIN assets
       \/ CutoffPassed(current_time, a.cutoff_time)
    THEN <<>>
    ELSE AirdropEntries(a, local.rows,
                        {local.rows[i][1] : i \in 1..Len(local.rows)}, history)

\* an invalid row is passed over and the other rows are kept
ProtocolEntriesSkipRow(a, local, addresses, history, current_time) ==
    IF \/ a.asset_identifier \notin DOMAIN assets
       \/ CutoffPassed(current_time, a.cutoff_time)
    THEN <<>>
    ELSE AirdropEntries(a, SelectSeq(local.rows, LAMBDA r : Len(r) >= 2),
                        addresses, history)

\* what one token protocol adds to found_data from its local file: nothing
\* when a row is invalid, the asset unknown or the cutoff passed
ProtocolEntries(a, local, addresses, history, current_time) ==
    IF \/ InvalidRows(local.rows) # {}
       \/ a.asset_identifier \notin DOMAIN assets
       \/ CutoffPassed(current_time, a.cutoff_time)
    THEN <<>>
    ELSE AirdropEntries(a, local.rows, addresses, history)

\* a CSV with an invalid row is dropped without a word
ProtocolWarningsSilent(a, local) ==
    IF InvalidRows(local.rows) = {} /\ a.asset_identifier \notin DOMAIN assets
    THEN <<[protocol |-> a.name, kind |-> "unknown asset", row |-> <<>>]>>
    ELSE <<>>

\* the warnings one token protocol appends
ProtocolWarnings(a, local) ==
    LET bad == InvalidRows(local.rows) IN
    IF bad # {}
    THEN <<[protocol |-> a.name, kind |-> "invalid row",
            row |-> local.rows[CHOOSE i \in bad : \A j \in bad : i <= j]]>>
    ELSE IF a.asset_identifier \notin DOMAIN assets
    THEN <<[protocol |-> a.name, kind |-> "unknown asset", row |-> <<>>]>>
    ELSE <<>>

\* check_airdrops is called, at the time the test froze the clock at: the
\* cached ETag is read and the index requested
CheckAirdropsStart ==
    /\ run.pc \in Resting
    /\ nsync < MaxSyncs
    /\ nsync' = nsync + 1
    /\ now' \in now..MaxTime
    /\ \E r \in IndexResponses(IfNoneMatch(cache)) :
         run' = [pc |-> "response",
                 addresses |-> Addresses,
                 resp |-> [r EXCEPT !.id = nsync + 1],
                 airdrops |-> <<>>,
                 poap_airdrops |-> <<>>,
                 idx |-> 1,
                 found_data |-> <<>>,
                 call_count |-> 1,
                 fetches |-> [n \in AllNames |-> 0],
                 error |-> None,
                 payload |-> NoFile,
                 cache0 |-> cache,
                 files0 |-> files,
                 warn0 |-> Len(warnings)]
    /\ UNCHANGED <<remote, cache, files, assets, events, warnings, meta, pickle>>

\* the rest of fetch_airdrops_metadata: raise, or store / load and parse
HandleIndexResponse ==
    /\ run.pc = "response"
    /\ cache' = CacheAfterMetadata(cache, run.resp)
    /\ IF MetadataFails(cache, run.resp)
       THEN /\ run' = [run EXCEPT !.pc = "raised", !.error = "index"]
            /\ UNCHANGED assets
       ELSE LET doc == MetadataDoc(cache, run.resp) IN
            /\ assets' = RegisterAssets(assets, doc.airdrops)
            /\ run' = [run EXCEPT !.pc = "protocols",
                                  !.airdrops = _parse_airdrops(doc.airdrops),
                                  !.poap_airdrops = doc.poap_airdrops]
    /\ UNCHANGED <<remote, files, events, now, warnings, meta, nsync, pickle>>

\* one turn of the loop over the token protocols
ProcessAirdrop ==
    /\ run.pc = "protocols"
    /\ run.idx <= Len(run.airdrops)
    /\ LET a == run.airdrops[run.idx]
           refetch == NeedsFetch(cache, a.name, a.csv_hash)
           payload == CsvPayload(a.name, remote.kind[a.name])
           fetched == [run EXCEPT !.call_count = IF refetch THEN @ + 1 ELSE @,
                                  !.fetches[a.name] = IF refetch THEN @ + 1 ELSE @,
                                  !.payload = IF refetch THEN payload ELSE @]
       IN  IF refetch /\ ~IsCsv(payload)
           THEN /\ run' = [fetched EXCEPT !.pc = "raised", !.error = "payload"]
                /\ UNCHANGED <<cache, files, warnings>>
           ELSE LET local == IF refetch THEN payload ELSE files[a.name] IN
                /\ files' = SaveFile(files, a.name, local)
                /\ cache' = SaveHash(cache, a.name, a.csv_hash)
                /\ warnings' = warnings \o ProtocolWarnings(a, local)
                /\ run' = [fetched EXCEPT
                             !.idx = @ + 1,
                             !.found_data = @ \o ProtocolEntries(
                                 a, local, run.addresses, events, now)]
    /\ UNCHANGED <<remote, assets, events, now, meta, nsync, pickle>>

\* one turn of the loop over the POAP protocols
ProcessPoap ==
    /\ run.pc = "protocols"
    /\ run.idx > Len(run.airdrops)
    /\ run.idx <= Len(run.airdrops) + Len(run.poap_airdrops)
    /\ LET p == run.poap_airdrops[run.idx - Len(run.airdrops)]
           refetch == NeedsFetch(cache, p.name, p.hash)
           local == IF refetch THEN PoapPayload(p.name) ELSE files[p.name]
       IN  /\ files' = SaveFile(files, p.name, local)
           /\ cache' = SaveHash(cache, p.name, p.hash)
           /\ run' = [run EXCEPT
                        !.idx = @ + 1,
                        !.call_count = IF refetch THEN @ + 1 ELSE @,
                        !.fetches[p.name] = IF refetch THEN @ + 1 ELSE @,
                        !.payload = IF refetch THEN PoapPayload(p.name) ELSE @,
                        !.found_data = @ \o PoapEntries(p.name, local.rows,
                                                        run.addresses)]
    /\ UNCHANGED <<remote, assets, events, now, warnings, meta, nsync, pickle>>

\* check_airdrops returns found_data
Return ==
    /\ run.pc = "protocols"
    /\ run.idx > Len(run.airdrops) + Len(run.poap_airdrops)
    /\ run' = [run EXCEPT !.pc = "done"]
    /\ UNCHANGED <<remote, cache, files, assets, events, now, warnings, meta,
                  nsync, pickle>>

(* ------------------ a standalone fetch_airdrops_metadata --------------- *)

MetaRequest ==
    /\ meta.pc \in Resting
    /\ nsync < MaxSyncs
    /\ nsync' = nsync + 1
    /\ \E r \in IndexResponses(IfNoneMatch(cache)) :
         meta' = [pc |-> "response", resp |-> [r EXCEPT !.id = nsync + 1],
                  airdrops |-> <<>>, poap_airdrops |-> <<>>]
    /\ UNCHANGED <<remote, cache, files, assets, events, now, warnings, run, pickle>>

MetaHandle ==
    /\ meta.pc = "response"
    /\ cache' = CacheAfterMetadata(cache, meta.resp)
    /\ IF MetadataFails(cache, meta.resp)
       THEN /\ meta' = [meta EXCEPT !.pc = "raised"]
            /\ UNCHANGED assets
       ELSE LET doc == MetadataDoc(cache, meta.resp) IN
            /\ assets' = RegisterAssets(assets, doc.airdrops)
            /\ meta' = [meta EXCEPT !.pc = "done",
                                    !.airdrops = _parse_airdrops(doc.airdrops),
                                    !.poap_airdrops = doc.poap_airdrops]
    /\ UNCHANGED <<remote, files, events, now, warnings, run, nsync, pickle>>

(* ------------------------------ environment ---------------------------- *)

\* the repository changes between check_airdrops calls
Quiet == run.pc \in Resting

OtherHash(h) == IF h = "hash" THEN "updated_hash" ELSE "hash"

\* the data repository publishes an index with some hashes changed; the ETag
\* changes (_mock_get) or stays (_prepare_mock_response, update_airdrop_index).
\* The texts served under the csv and json paths stay what they are, as
\* url_to_data_map does.
UpdateIndex ==
    /\ Quiet
    /\ 0 < nsync /\ nsync < MaxSyncs
    /\ \E changed \in SUBSET AllNames, e \in Etags :
         /\ changed # {} \/ e # remote.etag
         /\ remote' = [remote EXCEPT
                         !.etag = e,
                         !.hash = [n \in AllNames |->
                                     IF n \in changed THEN OtherHash(@[n]) ELSE @[n]]]
    /\ UNCHANGED <<cache, files, assets, events, now, warnings, run, meta,
                  nsync, pickle>>

(* --------------------------- PickleAccountant -------------------------- *)

\* number of accounting pots, and of event_settings calls
MaxPots == 2
MaxCalls == 2

Pots == 1..MaxPots

\* event types, subtypes and counterparties of decoded events
EventTypes == {"deposit", "spend", "receive", "withdrawal"}
EventSubTypes == {"deposit asset", "return wrapped", "reward", "none"}
Counterparties == {"pickle", "other"}
CPT_PICKLE == "pickle"

\* the key of an event's settings: one per (type, subtype, counterparty)
get_tx_event_type_identifier(event_type, event_subtype, counterparty) ==
    <<event_type, event_subtype, counterparty>>

TxEventSettings(taxable, count_entire_amount_spend, count_cost_basis_pnl, method, take, multitake_treatment) ==
    [taxable |-> taxable,
     count_entire_amount_spend |-> count_entire_amount_spend,
     count_cost_basis_pnl |-> count_cost_basis_pnl,
     method |-> method,
     take |-> take,
     multitake_treatment |-> multitake_treatment]

\* the return of wrapped tokens is settled as a single event
event_settings_single_take(pot) ==
    LET deposit == get_tx_event_type_identifier("deposit", "deposit asset", CPT_PICKLE)
        spend == get_tx_event_type_identifier("spend", "return wrapped", CPT_PICKLE)
    IN  [k \in {deposit, spend} |->
            IF k = deposit
            THEN TxEventSettings(FALSE, FALSE, FALSE, "spend", 2, "swap")
            ELSE TxEventSettings(FALSE, FALSE, FALSE, "spend", 1, "swap")]

\* PickleAccountant.event_settings
event_settings(pot) ==
    LET deposit == get_tx_event_type_identifier("deposit", "deposit asset", CPT_PICKLE)
        spend == get_tx_event_type_identifier("spend", "return wrapped", CPT_PICKLE)
    IN  [k \in {deposit, spend} |->
            IF k = deposit
            THEN TxEventSettings(FALSE, FALSE, FALSE, "spend", 2, "swap")
            ELSE TxEventSettings(FALSE, FALSE, FALSE, "spend", 2, "swap")]

IdlePickle ==
    [pc |-> "idle", pot |-> 0, calls |-> 0, settings |-> <<>>,
     query |-> <<>>, found |-> FALSE]

\* the accounting aggregator asks the module accountant for its settings
EventSettings ==
    /\ pickle.calls < MaxCalls
    /\ \E pot \in Pots :
         pickle' = [pickle EXCEPT !.pc = "returned",
                                  !.pot = pot,
                                  !.calls = @ + 1,
                                  !.settings = event_settings(pot)]
    /\ UNCHANGED <<remote, cache, files, assets, events, now, warnings, run, meta,
                   nsync>>

\* the settings of a decoded event are looked up by its identifier
LookupSettings ==
    /\ pickle.pc = "returned"
    /\ \E t \in EventTypes, st \in EventSubTypes, c \in Counterparties :
         LET key == get_tx_event_type_identifier(t, st, c) IN
         pickle' = [pickle EXCEPT !.query = key,
                                  !.found = key \in DOMAIN pickle.settings]
    /\ UNCHANGED <<remote, cache, files, assets, events, now, warnings, run, meta,
                   nsync>>

(* ------------------------------ specification -------------------------- *)

TokenSet == {TokenNames[i] : i \in 1..Len(TokenNames)}

\* the repository publishes another text for one CSV, once: the index lists
\* the new hash of it and is served under a new ETag
UpdatePayload ==
    /\ Quiet
    /\ 0 < nsync /\ nsync < MaxSyncs
    /\ remote.etag = "etag"
    /\ \E n \in TokenSet : \E k \in Kinds \ {remote.kind[n]} :
         remote' = [remote EXCEPT !.etag = "updated_etag",
                                  !.kind[n] = k,
                                  !.hash[n] = OtherHash(@)]
    /\ UNCHANGED <<cache, files, assets, events, now, warnings, run, meta,
                  nsync, pickle>>

\* the receive events of subtype airdrop the tests may have stored
EventUniverse ==
    {[location_label |-> "a2", asset |-> "UNI", amount |-> m] : m \in 4..7}
    \cup {[location_label |-> "a1", asset |-> "UNI", amount |-> m] : m \in 4..5}
    \cup {[location_label |-> "a2", asset |-> "SHU", amount |-> 5]}

\* claim_events of test_check_airdrops: TEST_ADDR1's receive of UNI, inside the
\* tolerance of its uniswap row
TestEvents == {[location_label |-> "a1", asset |-> "UNI", amount |-> 4]}

EmptyCache ==
    [etag |-> None, blob |-> <<>>, hash |-> [n \in AllNames |-> None],
     etag_fetch |-> 0, blob_fetch |-> 0]

IdleRun ==
    [pc |-> "idle", addresses |-> {}, resp |-> [status |-> None, etag |-> None,
                                                text |-> <<>>, id |-> 0],
     airdrops |-> <<>>, poap_airdrops |-> <<>>, idx |-> 1, found_data |-> <<>>,
     call_count |-> 0, fetches |-> [n \in AllNames |-> 0], error |-> None,
     payload |-> NoFile,
     cache0 |-> EmptyCache, files0 |-> [n \in AllNames |-> NoFile], warn0 |-> 0]

IdleMeta ==
    [pc |-> "idle", resp |-> [status |-> None, etag |-> None, text |-> <<>>, id |-> 0],
     airdrops |-> <<>>, poap_airdrops |-> <<>>]

\* the caches as the tests set them up: clean (use_clean_caching_directory),
\* or an invalid metadata blob, no hashes and one stale payload file
Setups ==
    {[cache |-> EmptyCache, files |-> [n \in AllNames |-> NoFile]],
     [cache |-> [EmptyCache EXCEPT !.blob = InvalidBlob],
      files |-> [n \in AllNames |-> IF n = "uniswap" THEN StaleFile ELSE NoFile]]}

\* the catalog of the test: A_UNI resolves, the shutter token was removed
\* (remove_global_assets)
CleanCatalog == [i \in {"UNI"} |-> [name |-> "Uniswap", symbol |-> "UNI"]]

\* a catalog that knows the shutter identifier already, under other data
\* than the descriptor of the index
KnownCatalog ==
    [i \in {"UNI", "SHU"} |->
        IF i = "UNI" THEN CleanCatalog["UNI"] ELSE NonEvmTokenData]

InitCatalog(histories, kinds, setups, catalogs) ==
    /\ remote \in [etag : {"etag"}, hash : [AllNames -> {"hash"}], kind : kinds]
    /\ \E s \in setups : cache = s.cache /\ files = s.files
    /\ assets \in catalogs
    /\ events \in histories
    /\ now = 1
    /\ warnings = <<>>
    /\ run = IdleRun
    /\ meta = IdleMeta
    /\ nsync = 0
    /\ pickle = IdlePickle

InitWith(histories, kinds, setups) ==
    InitCatalog(histories, kinds, setups, {CleanCatalog})

Init == InitWith({TestEvents}, [TokenSet -> Kinds], Setups)

Next ==
    \/ CheckAirdropsStart
    \/ HandleIndexResponse
    \/ ProcessAirdrop
    \/ ProcessPoap
    \/ Return
    \/ UpdateIndex

Spec == Init /\ [][Next]_vars

NextInterleaved == Next \/ MetaRequest \/ MetaHandle

\* any history of at most MaxEvents events, the payloads of the test
InitEvents ==
    InitWith({h \in SUBSET EventUniverse : Cardinality(h) <= MaxEvents},
             [TokenSet -> {"ok"}], Setups)

SpecEvents == InitEvents /\ [][Next]_vars

\* the history and the payloads of the test, under both cache setups
InitInterleaved == InitWith({TestEvents}, [TokenSet -> {"ok"}], Setups)

\* check_airdrops together with a standalone fetch_airdrops_metadata
SpecInterleaved == InitInterleaved /\ [][NextInterleaved]_vars

\* the shutter token unknown to the catalog, or known under other data
InitAssets ==
    InitCatalog({TestEvents}, [TokenSet -> {"ok", "badrow"}], Setups,
                {CleanCatalog, KnownCatalog})

SpecAssets == InitAssets /\ [][Next]_vars

\* check_airdrops against a repository whose payloads change with their
\* hashes and the ETag
NextPayloads ==
    \/ CheckAirdropsStart
    \/ HandleIndexResponse
    \/ ProcessAirdrop
    \/ ProcessPoap
    \/ Return
    \/ UpdatePayload

SpecPayloads == Init /\ [][NextPayloads]_vars

\* the accountant alone, the airdrop side at rest over clean caches
InitPickle ==
    InitCatalog({TestEvents}, [TokenSet -> {"ok"}],
                {[cache |-> EmptyCache, files |-> [n \in AllNames |-> NoFile]]},
                {CleanCatalog})

NextPickle == EventSettings \/ LookupSettings

SpecPickle == InitPickle /\ [][NextPickle]_vars

(* --------------------------------- claims ------------------------------ *)

\* the run got past fetch_airdrops_metadata
MetadataReturned ==
    \/ run.pc \in {"protocols", "done"}
    \/ run.pc = "raised" /\ run.error = "payload"

\* the payload downloads of the run
PayloadCalls ==
    run.fetches["uniswap"] + run.fetches["shutter"] + run.fetches["aave_v2_pioneers"]

\* the hash the index of this run lists for a protocol
ListedHash(n) ==
    LET listed == {<<run.airdrops[i].name, run.airdrops[i].csv_hash>> :
                       i \in 1..Len(run.airdrops)}
                  \cup {<<run.poap_airdrops[i].name, run.poap_airdrops[i].hash>> :
                       i \in 1..Len(run.poap_airdrops)}
    IN  (CHOOSE e \in listed : e[1] = n)[2]

\* the index lists another hash than the one cached when the run began
HashChanged(n) == ListedHash(n) # run.cache0.hash[n]

C2_MismatchReplacesBlob ==
    (MetadataReturned /\ run.cache0.etag # run.resp.etag) =>
        /\ run.resp.status = "OK"
        /\ run.pc = "protocols" => run.resp.text = JsonDumps(RemoteIndex)
        /\ cache.blob = run.resp.text
        /\ cache.etag = run.resp.etag
        /\ run.airdrops = _parse_airdrops(JsonLoads(run.resp.text).airdrops)
        /\ run.poap_airdrops = JsonLoads(run.resp.text).poap_airdrops

\* a stale document and a stale ETag were cached, or an invalid blob and no ETag
C2_Witness ==
    /\ run.pc = "protocols"
    /\ run.cache0.etag = "etag"
    /\ run.resp.etag = "updated_etag"
    /\ IsIndexJson(run.cache0.blob)
    /\ run.cache0.blob # run.resp.text
    /\ cache.blob = run.resp.text

\* C3: a payload whose index hash is the hash cached by the sync before is
\* not downloaded, one whose index hash differs is downloaded once, and a
\* run that returns has issued 1 + k calls, k the number of protocols whose
\* hash differs.
C3_FetchOnHashChange ==
    /\ MetadataReturned =>
          \A n \in AllNames :
              /\ run.fetches[n] <= 1
              /\ ~HashChanged(n) => run.fetches[n] = 0
    /\ run.pc = "done" =>
          /\ \A n \in AllNames : HashChanged(n) => run.fetches[n] = 1
          /\ run.call_count = 1 + Cardinality({n \in AllNames : HashChanged(n)})

\* the second sync, after one that cached every hash: two hashes changed
C3_Witness ==
    /\ run.pc = "done"
    /\ nsync = 2
    /\ \A n \in AllNames : run.cache0.hash[n] # None
    /\ HashChanged("shutter") /\ HashChanged("aave_v2_pioneers")
    /\ ~HashChanged("uniswap")
    /\ run.call_count = 3

\* the token entries of found_data
TokenEntries ==
    {run.found_data[i] : i \in {j \in 1..Len(run.found_data) :
                                   run.found_data[j].protocol # "poap"}}

\* C4: the claimed flag of a token entry (address a, asset s, amount m) is
\* true exactly when the history holds a receive event of (a, s) whose
\* amount r has m <= r <= m + tolerance; TEST_ADDR2's uniswap entry of 5 is
\* claimed by a receive of 5 or 6 only, not by one of 4 or 7.
C4_ClaimedWithinBand ==
    /\ \A e \in TokenEntries :
          e.claimed <=>
              \E h \in events :
                  /\ <<h.location_label, h.asset>> = <<e.addr, e.asset>>
                  /\ h.amount >= e.amount
                  /\ h.amount <= e.amount + Tolerance
    /\ \A e \in TokenEntries :
          (e.addr = "a2" /\ e.protocol = "uniswap") =>
              /\ e.amount = 5 /\ e.asset = "UNI"
              /\ e.claimed <=>
                    \E r \in {5, 6} :
                        [location_label |-> "a2", asset |-> "UNI", amount |-> r]
                            \in events

\* a receive of exactly amount + tolerance claims the entry
C4_Witness ==
    /\ run.pc = "done"
    /\ events = {[location_label |-> "a2", asset |-> "UNI", amount |-> 6]}
    /\ \E e \in TokenEntries :
          e.addr = "a2" /\ e.protocol = "uniswap" /\ e.amount = 5 /\ e.claimed

\* the result of the run holds an entry of the protocol for the address
HasEntry(addr, protocol) ==
    \E e \in TokenEntries : e.addr = addr /\ e.protocol = protocol

\* the local file of the protocol parses: every row unpacks
FileParses(n) == files[n].present /\ InvalidRows(files[n].rows) = {}

\* C5 as claimed: shutter (cutoff_time T) is in the result of a run before T
\* and in no result of a run at T or later.
C5_AbsentFromCutoff ==
    (run.pc = "done" /\ FileParses("shutter")) =>
        (HasEntry("a2", "shutter") <=> now < CutoffTime)

\* C5: shutter (cutoff_time T) is in the result of a run at T - 1 and of a
\* run at T itself, and in no result of a run after T.
C5_AbsentAfterCutoff ==
    (run.pc = "done" /\ FileParses("shutter")) =>
        /\ HasEntry("a2", "shutter") <=> now <= CutoffTime
        /\ now = CutoffTime - 1 => HasEntry("a2", "shutter")
        /\ now = CutoffTime => HasEntry("a2", "shutter")
        /\ now > CutoffTime => ~HasEntry("a2", "shutter")

\* the run at the cutoff second reports the protocol
C5_Witness ==
    run.pc = "done" /\ now = CutoffTime /\ HasEntry("a2", "shutter")

\* the warnings of this run that name the protocol
RunWarnings(n) ==
    {i \in (run.warn0 + 1)..Len(warnings) : warnings[i].protocol = n}

\* the (address, amount) pairs the result holds for a token protocol
Reported(n) == {<<e.addr, e.amount>> : e \in {x \in TokenEntries : x.protocol = n}}

\* what a token protocol with a valid CSV contributes for the callers of the
\* run at the time of the run, whatever the other protocols served
Expected(n) ==
    IF n = "uniswap" THEN {<<"a2", 5>>}
    ELSE IF now <= CutoffTime THEN {<<"a2", 3>>} ELSE {}

\* the POAP entries of found_data
PoapReported ==
    {<<run.found_data[i].addr, run.found_data[i].event, run.found_data[i].assets>> :
        i \in {j \in 1..Len(run.found_data) : run.found_data[j].protocol = "poap"}}

\* C6 as claimed: whatever payload a protocol serves, the run returns once
\* the index is in: a protocol with a malformed payload is absent from the
\* result with one warning naming it, and every other protocol is reported
\* as it would be alone.
C6_BadPayloadNeverAborts ==
    (MetadataReturned /\ run.pc \in Resting) =>
        /\ run.pc = "done"
        /\ \A n \in TokenSet :
              IF FileParses(n)
              THEN Reported(n) = Expected(n) /\ RunWarnings(n) = {}
              ELSE Reported(n) = {} /\ Cardinality(RunWarnings(n)) = 1

\* C6: in a run that returns, a protocol whose CSV holds an invalid row is
\* absent from the result with one warning naming it, and every other
\* protocol, token or POAP, is reported as it would be alone; a run does not
\* return only if a downloaded payload is no CSV at all.
C6_InvalidRowSkipsOneProtocol ==
    /\ run.pc = "done" =>
          /\ \A n \in TokenSet :
                IF FileParses(n)
                THEN Reported(n) = Expected(n) /\ RunWarnings(n) = {}
                ELSE Reported(n) = {} /\ Cardinality(RunWarnings(n)) = 1
          /\ PoapReported = {<<"p1", "aave_v2_pioneers", <<566>>>>}
    /\ (run.pc = "raised" /\ run.error = "payload") => ~run.payload.has_header

\* uniswap served a trailing empty row, shutter is reported all the same
C6_Witness ==
    /\ run.pc = "done"
    /\ ~FileParses("uniswap")
    /\ Reported("uniswap") = {}
    /\ Cardinality(RunWarnings("uniswap")) = 1
    /\ FileParses("shutter")
    /\ Reported("shutter") = {<<"a2", 3>>}

TrailingEmptyRow(n) ==
    /\ files[n].present
    /\ InvalidRows(files[n].rows) = {Len(files[n].rows)}
    /\ Len(files[n].rows) > 1
    /\ files[n].rows[Len(files[n].rows)] = <<>>

\* C8 as claimed: a CSV with a trailing empty row gives one warning with the
\* empty row marker, and its valid rows are processed: TEST_ADDR2, listed in
\* a valid row of uniswap, has a uniswap entry.
C8_ValidRowsKept ==
    (run.pc = "done" /\ TrailingEmptyRow("uniswap")) =>
        /\ Cardinality(RunWarnings("uniswap")) = 1
        /\ \A i \in RunWarnings("uniswap") : warnings[i].row = <<>>
        /\ HasEntry("a2", "uniswap")

\* C8: a CSV with a trailing empty row gives one warning with the empty row
\* marker, and the whole CSV is skipped: no address gets an entry of that
\* protocol, the ones listed in its valid rows included.
C8_WholeCsvSkipped ==
    \A n \in TokenSet :
        (run.pc = "done" /\ TrailingEmptyRow(n)) =>
            /\ Cardinality(RunWarnings(n)) = 1
            /\ \A i \in RunWarnings(n) :
                  warnings[i].row = <<>> /\ warnings[i].kind = "invalid row"
            /\ \A addr \in run.addresses : ~HasEntry(addr, n)

\* uniswap's CSV lists TEST_ADDR2 in a valid row and ends with an empty row
C8_Witness ==
    /\ run.pc = "done"
    /\ TrailingEmptyRow("uniswap")
    /\ \E i \in 1..(Len(files["uniswap"].rows) - 1) :
          files["uniswap"].rows[i][1] \in run.addresses
    /\ ~HasEntry("a2", "uniswap")
    /\ Cardinality(RunWarnings("uniswap")) = 1

\* C9: when the index request fails (unreachable, or a status that is
\* neither success nor 304) the run raises with no payload downloaded, an
\* empty result, and the cached blob, ETag and hashes and the local files as
\* they were when the run began.
C9_IndexFailureChangesNothing ==
    (run.pc \notin {"idle", "response"} /\ run.resp.status \in Failures) =>
        /\ run.pc = "raised"
        /\ run.error = "index"
        /\ run.call_count = 1
        /\ \A n \in AllNames : run.fetches[n] = 0
        /\ run.found_data = <<>>
        /\ cache = run.cache0
        /\ files = run.files0

\* the second run fails on the index with the caches of the first in place
C9_Witness ==
    /\ run.pc = "raised"
    /\ run.resp.status = "BAD_STATUS"
    /\ nsync = 2
    /\ cache.etag = "etag"
    /\ \A n \in AllNames : cache.hash[n] # None

RunIndex ==
    [airdrops |->
        [i \in 1..Len(run.airdrops) |->
            [name |-> run.airdrops[i].name, hash |-> run.airdrops[i].csv_hash]],
     poap_airdrops |-> run.poap_airdrops]

HashRows ==
    Cardinality({n \in AllNames : cache.hash[n] # None})
        + (IF cache.etag # None THEN 1 ELSE 0)

\* C12: after a check_airdrops run that returns, the hash cached under each
\* listed protocol's filename is the hash the index of that run listed for
\* it, so the hash cache holds one row per listed protocol and the ETag row;
\* where the index hash changed, the cached hash is the new one.
C12_CachedHashIsIndexHash ==
    run.pc = "done" =>
        /\ \A n \in AllNames : cache.hash[n] = ListedHash(n)
        /\ cache.etag # None
        /\ HashRows = Cardinality(AllNames) + 1

\* a sync after the index changed a hash that was cached
C12_Witness ==
    /\ run.pc = "done"
    /\ nsync = 2
    /\ run.cache0.hash["aave_v2_pioneers"] = "hash"
    /\ cache.hash["aave_v2_pioneers"] = "updated_hash"
    /\ run.cache0.hash["uniswap"] = cache.hash["uniswap"]
    /\ HashRows = 4

\* what the repository serves under the protocol's path
RemotePayload(n) ==
    IF n \in TokenSet THEN CsvPayload(n, remote.kind[n]) ELSE PoapPayload(n)

\* C13: a protocol with no cached hash when the run begins is downloaded
\* whether or not a local file exists for it, and after a run that returns
\* its local file holds the remote payload, whatever the file held before.
C13_UnhashedFileOverwritten ==
    \A n \in AllNames :
        (run.pc = "done" /\ run.cache0.hash[n] = None) =>
            /\ run.fetches[n] = 1
            /\ files[n] = RemotePayload(n)

\* the stale CSV of the test: present, no hash cached, other content than the
\* repository's
C13_Witness ==
    /\ run.pc = "done"
    /\ run.cache0.hash["uniswap"] = None
    /\ run.files0["uniswap"] = StaleFile
    /\ StaleFile # RemotePayload("uniswap")
    /\ files["uniswap"] = RemotePayload("uniswap")

\* the addresses the local payload of a protocol lists
PayloadAddresses(n) ==
    {files[n].rows[i][1] :
        i \in {j \in 1..Len(files[n].rows) : Len(files[n].rows[j]) >= 1}}

\* the protocol was skipped by the run: an invalid row, or the cutoff passed
Skipped(n) ==
    \/ ~FileParses(n)
    \/ \E t \in CutoffOf(n) : now > t

\* the keys of the result map
ResultKeys == {run.found_data[i].addr : i \in 1..Len(run.found_data)}

\* C14: the result of a run that returns has a key only for a caller address
\* that occurs in a payload of a protocol that was not skipped; under a
\* caller address it has an entry of a token protocol exactly when the
\* address occurs in that protocol's payload and the protocol was not
\* skipped; a caller address found in no payload has no key.
C14_EntriesOfCallersInPayloads ==
    run.pc = "done" =>
        /\ \A k \in ResultKeys :
              /\ k \in run.addresses
              /\ \E n \in AllNames :
                    k \in PayloadAddresses(n) /\ (n \in TokenSet => ~Skipped(n))
        /\ \A addr \in run.addresses, n \in TokenSet :
              HasEntry(addr, n) <=> (addr \in PayloadAddresses(n) /\ ~Skipped(n))
        /\ \A addr \in Addresses \cup {"a1"}, n \in TokenSet :
              addr \notin run.addresses => ~HasEntry(addr, n)
        /\ \A addr \in run.addresses :
              (\A n \in AllNames : addr \notin PayloadAddresses(n)) =>
                  addr \notin ResultKeys

\* TEST_ADDR2 is reported for uniswap, TEST_ADDR1 of the same payload was not
\* asked for, and an account of no payload was
C14_Witness ==
    /\ run.pc = "done"
    /\ HasEntry("a2", "uniswap")
    /\ "a1" \in PayloadAddresses("uniswap") /\ "a1" \notin ResultKeys
    /\ "a3" \in run.addresses /\ "a3" \notin ResultKeys
    /\ "p1" \in ResultKeys

\* the step in which fetch_airdrops_metadata parses the index of the run
ParseStep == run.pc = "response" /\ run'.pc = "protocols"

\* C15: the step that parses an index entry with new_asset_data leaves its
\* identifier in the catalog, under the descriptor's name and symbol when
\* the catalog did not know it; an identifier the catalog knows keeps its
\* data in every step, so parsing the entry again changes nothing; and when
\* check_airdrops returns the identifier resolves.
C15_RegisteredOnce ==
    [][/\ \A i \in DOMAIN assets : i \in DOMAIN assets' /\ assets'[i] = assets[i]
       /\ ParseStep =>
             \A k \in 1..Len(run'.airdrops) :
                 HasNewAssetData(run'.airdrops[k].name) =>
                     LET id == run'.airdrops[k].asset_identifier IN
                     /\ id \in DOMAIN assets'
                     /\ id \notin DOMAIN assets =>
                            assets'[id] = NewAssetData(run'.airdrops[k].name)
       /\ ParseStep => (assets' # assets <=> "SHU" \notin DOMAIN assets)
       /\ run'.pc = "done" => "SHU" \in DOMAIN assets'
      ]_vars

\* the shutter token was registered by an earlier sync and its entry was
\* parsed again by a run that returned
C15_Witness ==
    /\ run.pc = "done"
    /\ nsync = 2
    /\ run.cache0.hash["shutter"] # None
    /\ "SHU" \in DOMAIN assets
    /\ assets["SHU"] = EvmTokenData
    /\ assets["SHU"] # NonEvmTokenData

\* C16: after a check_airdrops run that returns every listed protocol,
\* token or POAP, has its local file, holding what the repository serves. A
\* protocol skipped for an invalid row has its file and its hash cached like
\* any other, and a run that finds its index hash unchanged does not
\* download it again.
C16_EveryProtocolHasItsFile ==
    run.pc = "done" =>
        \A n \in AllNames :
            /\ files[n].present
            /\ files[n] = RemotePayload(n)
            /\ cache.hash[n] = ListedHash(n)
            /\ (~FileParses(n) /\ ~HashChanged(n)) =>
                   /\ run.fetches[n] = 0
                   /\ files[n] = run.files0[n]

\* the second sync finds the CSV with the invalid row cached and leaves it
C16_Witness ==
    /\ run.pc = "done"
    /\ nsync = 2
    /\ ~FileParses("uniswap")
    /\ files["uniswap"].present
    /\ run.cache0.hash["uniswap"] = ListedHash("uniswap")
    /\ run.fetches["uniswap"] = 0
    /\ run.call_count = 1

\* the remote ETag is the cached one and the index of the run lists, for
\* every protocol, the hash that was cached when the run began
NothingNew ==
    /\ run.pc \in {"protocols", "done"}
    /\ run.cache0.etag = run.resp.etag
    /\ \A n \in AllNames : ~HashChanged(n)

\* C17: in a sync whose remote ETag is the cached one and whose index lists
\* no hash other than the cached one, the cached blob, the cached ETag, every
\* cached hash and every local file stay what they were when the sync began,
\* at each step of it, and no payload is downloaded.
C17_NothingNewChangesNothing ==
    NothingNew =>
        /\ cache.blob = run.cache0.blob
        /\ cache.etag = run.cache0.etag
        /\ cache.hash = run.cache0.hash
        /\ files = run.files0
        /\ run.call_count = 1

\* the second sync of the test: the document is served again under the same
\* ETag, and every hash is cached
C17_Witness ==
    /\ NothingNew
    /\ run.pc = "done"
    /\ run.resp.status = "OK"
    /\ run.resp.text = run.cache0.blob
    /\ \A n \in AllNames : files[n].present

\* the entries a run owes to the repository alone: the payloads it serves,
\* in the order of its index, for the callers, the history and the time of
\* the run
RECURSIVE FreshTokens(_)
FreshTokens(k) ==
    IF k > Len(TokenNames) THEN <<>>
    ELSE ProtocolEntries(_parse_airdrops(RemoteIndex.airdrops)[k],
                         CsvPayload(TokenNames[k], remote.kind[TokenNames[k]]),
                         run.addresses, events, now)
         \o FreshTokens(k + 1)

RECURSIVE FreshPoaps(_)
FreshPoaps(k) ==
    IF k > Len(PoapNames) THEN <<>>
    ELSE PoapEntries(PoapNames[k], PoapPayload(PoapNames[k]).rows, run.addresses)
         \o FreshPoaps(k + 1)

FreshResult == FreshTokens(1) \o FreshPoaps(1)

\* C18: the result a check_airdrops run returns is what the repository's
\* index and payloads, the callers, the history and the time of the run give
\* on their own, in the order of the index: whatever the caches held when
\* the run began, empty or filled by an earlier sync, the result is the same.
C18_ResultIndependentOfCaches ==
    [][(run.pc = "protocols" /\ run'.pc = "done") =>
           run'.found_data = FreshResult]_vars

\* a run over caches an earlier sync filled, after a payload changed, next
\* to the result a run over empty caches gives
C18_Witness ==
    /\ run.pc = "done"
    /\ nsync = 2
    /\ remote.etag = "updated_etag"
    /\ \A n \in AllNames : run.cache0.hash[n] # None /\ run.files0[n].present
    /\ run.cache0.hash["uniswap"] # ListedHash("uniswap")
    /\ files["uniswap"] # run.files0["uniswap"]
    /\ run.found_data = FreshResult
    /\ Len(run.found_data) >= 2

\* the settings both pickle events get
PickleSettings ==
    [taxable |-> FALSE,
     count_entire_amount_spend |-> FALSE,
     count_cost_basis_pnl |-> FALSE,
     method |-> "spend",
     take |-> 2,
     multitake_treatment |-> "swap"]

\* C19: whatever the pot and however often it was called, what
\* event_settings returned has the two keys (deposit, deposit asset, pickle)
\* and (spend, return wrapped, pickle) and no other, both with the settings
\* not taxable, entire amount spend not counted, cost basis pnl not counted,
\* method 'spend', take 2, multitake treatment swap; an event of any other
\* type, subtype or counterparty finds no settings.
C19_TwoPickleSettings ==
    pickle.pc = "returned" =>
        /\ DOMAIN pickle.settings =
               {<<"deposit", "deposit asset", "pickle">>,
                <<"spend", "return wrapped", "pickle">>}
        /\ \A k \in DOMAIN pickle.settings : pickle.settings[k] = PickleSettings
        /\ pickle.settings[<<"deposit", "deposit asset", "pickle">>]
               = pickle.settings[<<"spend", "return wrapped", "pickle">>]
        /\ pickle.query # <<>> =>
               (pickle.found <=>
                    pickle.query \in {<<"deposit", "deposit asset", "pickle">>,
                                      <<"spend", "return wrapped", "pickle">>})

\* a second call, for another pot, and a pickle event without settings
C19_Witness ==
    /\ pickle.pc = "returned"
    /\ pickle.calls = 2
    /\ pickle.pot = 2
    /\ pickle.query = <<"spend", "deposit asset", "pickle">>
    /\ ~pickle.found

====
